---- MODULE Spec2Model ----
(***************************************************************************)
(* A model of the quiz application in src/app.py: the user table and the   *)
(* quiz table of the SQLite store, the Flask-Login session of one browser, *)
(* and one action per route handler.  Three specifications are given:      *)
(*   Spec      - the handlers run one request at a time;                   *)
(*   ConcSpec  - several POST /register requests interleave between the    *)
(*               existence check and the commit;                           *)
(*   ScoreSpec - the quiz handler over arbitrary catalogs and answer forms.*)
(***************************************************************************)
EXTENDS Integers, Sequences, FiniteSets, TLC

(* ------------------------------ bounds -------------------------------- *)

NUsernames == 2
NProcs == 2
MaxQ == 2

\* The usernames and passwords the forms carry, the salts the hash draws from,
\* and the concurrent requests.
Usernames == 1..NUsernames
Passwords == {1, 2}
Salts == {1, 2}
Procs == 1..NProcs

VARIABLES
    users,        \* rows of the user table, in insertion order
    quizzes,      \* rows of the quiz table, in insertion order
    session,      \* the "_user_id" entry of the browser's session: {} or {id}
    req,          \* the request served last
    resp,         \* the response to it
    registered,   \* history: the (username, password) pairs of successful registrations
    procs         \* the in-flight POST /register requests of ConcSpec

vars == <<users, quizzes, session, req, resp, registered, procs>>

(* ------------------------- password hashing --------------------------- *)

\* werkzeug's keyed digest of a password under a salt: an ideal hash, with no
\* collisions within the bounds.
hash_internal(salt, password) == salt * (Cardinality(Passwords) + 1) + password

\* generate_password_hash: "method$salt$digest", the salt drawn at random.
generate_password_hash(password, salt) ==
    [salt |-> salt, hashval |-> hash_internal(salt, password)]

CheckPasswordAlwaysTrue(pwhash, password) == TRUE

\* check_password_hash: recompute the digest under the stored salt and compare.
check_password_hash(pwhash, password) ==
    hash_internal(pwhash.salt, password) = pwhash.hashval

\* User.set_password
set_password(user, password, salt) ==
    [user EXCEPT !.password = generate_password_hash(password, salt)]

\* User.check_password
check_password(user, password) == check_password_hash(user.password, password)

(* ------------------------------ the store ----------------------------- *)

RECURSIVE MaxId(_)
\* The largest primary key of a table (0 when it is empty).
MaxId(table) ==
    IF table = <<>> THEN 0
    ELSE LET m == MaxId(Tail(table)) IN IF Head(table).id > m THEN Head(table).id ELSE m

\* Integer primary key: the store assigns the next row id.
NextId(table) == MaxId(table) + 1

FilterNone(table, username) == <<>>

\* User.query.filter_by(username=username): the matching rows, in table order.
filter_by_username(table, username) ==
    SelectSeq(table, LAMBDA row: row.username = username)

\* .first(): <<>> for None, <<row>> otherwise.
first(rows) == IF rows = <<>> THEN <<>> ELSE <<Head(rows)>>

\* unique=True on User.username: the constraint the store checks on insert.
UniqueUsername(table, row) == filter_by_username(table, row.username) = <<>>

CommitNoConstraint(table, row, store_ok) ==
    IF store_ok
    THEN [table |-> Append(table, [row EXCEPT !.id = NextId(table)]), raised |-> "None"]
    ELSE [table |-> table, raised |-> "OperationalError"]

CommitKeepsRow(table, row, store_ok) ==
    IF ~store_ok
    THEN [table |-> Append(table, [row EXCEPT !.id = NextId(table)]), raised |-> "OperationalError"]
    ELSE IF ~UniqueUsername(table, row)
    THEN [table |-> table, raised |-> "IntegrityError"]
    ELSE [table |-> Append(table, [row EXCEPT !.id = NextId(table)]), raised |-> "None"]

\* db.session.add(new_user); db.session.commit(): the row is inserted and
\* committed, or the transaction is rolled back and an exception is raised
\* (the store is unavailable, or the unique constraint is violated).
CommitUser(table, row, store_ok) ==
    IF ~store_ok
    THEN [table |-> table, raised |-> "OperationalError"]
    ELSE IF ~UniqueUsername(table, row)
    THEN [table |-> table, raised |-> "IntegrityError"]
    ELSE [table |-> Append(table, [row EXCEPT !.id = NextId(table)]), raised |-> "None"]

\* load_user: User.query.get(int(user_id)).
load_user(table, user_id) == first(SelectSeq(table, LAMBDA row: row.id = user_id))

AlwaysAuthenticated(table, sess) == TRUE

\* current_user.is_authenticated: the session names a user the store still holds.
is_authenticated(table, sess) ==
    \E user_id \in sess : load_user(table, user_id) # <<>>

\* login_user(user): the session is bound to the user's id.
login_user(sess, user) == {user.id}

LogoutKeepsSession(sess) == sess

\* logout_user(): the "_user_id" entry is removed from the session.
logout_user(sess) == {}

(* --------------------------- requests, responses ---------------------- *)

NoForm == <<>>

Request(method, path, credentials, answers) ==
    [method |-> method, path |-> path, credentials |-> credentials, answers |-> answers]

\* redirect(url_for(endpoint)) after flash(message) ("" when nothing is flashed).
Redirect(endpoint, message) ==
    [kind |-> "redirect", target |-> endpoint, flash |-> message, flash_args |-> <<>>,
     questions |-> <<>>, score |-> <<>>]

\* render_template(template, questions=..., score=...) after flash(message % args);
\* score is <<>> when the template gets none.
Render(template, message, args, questions, score) ==
    [kind |-> "render", target |-> template, flash |-> message, flash_args |-> args,
     questions |-> questions, score |-> score]

\* A plain-text body.
Text(body) ==
    [kind |-> "text", target |-> body, flash |-> "", flash_args |-> <<>>,
     questions |-> <<>>, score |-> <<>>]

\* login_manager.unauthorized() with login_view = "login".
Unauthorized == Redirect("login", "Please log in to access this page.")

MsgDuplicate == "Username already exists. Try a different one."
MsgRegistered == "Registration successful! You can now log in."
MsgRegisterError == "An error occurred during registration. Please try again."
MsgLoginFailed == "Login failed. Check your username and password."

(* ------------------------------ /register ----------------------------- *)

RegisterGet ==
    /\ req' = Request("GET", "/register", NoForm, <<>>)
    /\ resp' = Render("register.html", "", <<>>, <<>>, <<>>)
    /\ UNCHANGED <<users, quizzes, session, registered, procs>>

\* User(username=username) before set_password.
NewUser(username) == [id |-> 0, username |-> username, password |-> [salt |-> 0, hashval |-> 0]]

RegisterPostLogsIn(username, password, salt, store_ok) ==
    /\ req' = Request("POST", "/register", <<username, password>>, <<>>)
    /\ LET existing_user == first(filter_by_username(users, username))
           new_user == set_password(NewUser(username), password, salt)
           done == CommitUser(users, new_user, store_ok)
       IN  IF existing_user # <<>>
           THEN /\ resp' = Redirect("register", MsgDuplicate)
                /\ UNCHANGED <<users, registered, session>>
           ELSE IF done.raised = "None"
           THEN /\ users' = done.table
                /\ registered' = registered \cup {<<username, password>>}
                /\ session' = login_user(session, done.table[Len(done.table)])
                /\ resp' = Redirect("login", MsgRegistered)
           ELSE /\ users' = done.table
                /\ resp' = Redirect("register", MsgRegisterError)
                /\ UNCHANGED <<registered, session>>
    /\ UNCHANGED <<quizzes, procs>>

RegisterPost(username, password, salt, store_ok) ==
    /\ req' = Request("POST", "/register", <<username, password>>, <<>>)
    /\ LET existing_user == first(filter_by_username(users, username))
           new_user == set_password(NewUser(username), password, salt)
           done == CommitUser(users, new_user, store_ok)
       IN  IF existing_user # <<>>
           THEN /\ resp' = Redirect("register", MsgDuplicate)
                /\ UNCHANGED <<users, registered>>
           ELSE IF done.raised = "None"
           THEN /\ users' = done.table
                /\ registered' = registered \cup {<<username, password>>}
                /\ resp' = Redirect("login", MsgRegistered)
           ELSE /\ users' = done.table
                /\ resp' = Redirect("register", MsgRegisterError)
                /\ UNCHANGED registered
    /\ UNCHANGED <<quizzes, session, procs>>

(* ------------------------------- /login ------------------------------- *)

LoginGet ==
    /\ req' = Request("GET", "/login", NoForm, <<>>)
    /\ resp' = Render("login.html", "", <<>>, <<>>, <<>>)
    /\ UNCHANGED <<users, quizzes, session, registered, procs>>

LoginPostLeaky(username, password) ==
    /\ req' = Request("POST", "/login", <<username, password>>, <<>>)
    /\ LET user == first(filter_by_username(users, username))
       IN  IF user # <<>> /\ check_password(user[1], password)
           THEN /\ session' = login_user(session, user[1])
                /\ resp' = Redirect("home", "")
           ELSE /\ resp' = Redirect("login", IF user = <<>> THEN "Unknown username."
                                                            ELSE MsgLoginFailed)
                /\ UNCHANGED session
    /\ UNCHANGED <<users, quizzes, registered, procs>>

LoginPost(username, password) ==
    /\ req' = Request("POST", "/login", <<username, password>>, <<>>)
    /\ LET user == first(filter_by_username(users, username))
       IN  IF user # <<>> /\ check_password(user[1], password)
           THEN /\ session' = login_user(session, user[1])
                /\ resp' = Redirect("home", "")
           ELSE /\ resp' = Redirect("login", MsgLoginFailed)
                /\ UNCHANGED session
    /\ UNCHANGED <<users, quizzes, registered, procs>>

(* ------------------------------- /logout ------------------------------ *)

Logout ==
    /\ req' = Request("GET", "/logout", NoForm, <<>>)
    /\ IF ~is_authenticated(users, session)
       THEN /\ resp' = Unauthorized
            /\ UNCHANGED session
       ELSE /\ session' = logout_user(session)
            /\ resp' = Redirect("home", "")
    /\ UNCHANGED <<users, quizzes, registered, procs>>

(* ---------------------------------- / --------------------------------- *)

Home ==
    /\ req' = Request("GET", "/", NoForm, <<>>)
    /\ resp' = Render("home.html", "", <<>>, <<>>, <<>>)
    /\ UNCHANGED <<users, quizzes, session, registered, procs>>

(* ------------------------ /add_sample_questions ----------------------- *)

Labels == {"A", "B", "C", "D"}

\* The three Quiz(...) rows of the handler (the four option texts are left out).
sample_questions ==
    << [id |-> 0, question |-> "What is the capital of France?", correct_answer |-> "C"],
       [id |-> 0, question |-> "What is 2 + 2?", correct_answer |-> "B"],
       [id |-> 0, question |-> "Which planet is known as the Red Planet?", correct_answer |-> "B"] >>

\* db.session.add_all(rows); db.session.commit(): every row gets the next id.
add_all(table, rows) ==
    table \o [i \in 1..Len(rows) |-> [rows[i] EXCEPT !.id = NextId(table) + i - 1]]

AddSampleQuestionsUnguarded(store_ok) ==
    /\ req' = Request("GET", "/add_sample_questions", NoForm, <<>>)
    /\ IF ~store_ok
       THEN /\ resp' = Text("An error occurred while adding sample questions.")
            /\ UNCHANGED quizzes
       ELSE /\ quizzes' = add_all(quizzes, sample_questions)
            /\ resp' = Text("Sample questions added!")
    /\ UNCHANGED <<users, session, registered, procs>>

\* The try block raises (the count or the commit fails in the store) and the
\* handler answers with the error text, or the table is seeded when empty.
AddSampleQuestions(store_ok) ==
    /\ req' = Request("GET", "/add_sample_questions", NoForm, <<>>)
    /\ IF ~store_ok
       THEN /\ resp' = Text("An error occurred while adding sample questions.")
            /\ UNCHANGED quizzes
       ELSE IF Len(quizzes) = 0
       THEN /\ quizzes' = add_all(quizzes, sample_questions)
            /\ resp' = Text("Sample questions added!")
       ELSE /\ resp' = Text("Sample questions already exist in the database.")
            /\ UNCHANGED quizzes
    /\ UNCHANGED <<users, session, registered, procs>>

(* -------------------------------- /quiz ------------------------------- *)

\* request.form.get(f"question_{id}"): the submitted label, or None.
form_get(form, id) == IF id \in DOMAIN form THEN form[id] ELSE "None"

\* str.upper on the labels of the model.
Upper(label) ==
    CASE label = "a" -> "A" [] label = "b" -> "B" [] label = "c" -> "C"
      [] label = "d" -> "D" [] OTHER -> label

RECURSIVE ScoreIgnoringCase(_, _, _)
ScoreIgnoringCase(questions, form, score) ==
    IF questions = <<>> THEN score
    ELSE LET question == Head(questions)
             user_answer == form_get(form, question.id)
         IN  ScoreIgnoringCase(Tail(questions), form,
                 IF Upper(user_answer) = question.correct_answer THEN score + 1 ELSE score)

RECURSIVE ScoreLoop(_, _, _)
\* for question in questions: if user_answer == question.correct_answer: score += 1
ScoreLoop(questions, form, score) ==
    IF questions = <<>> THEN score
    ELSE LET question == Head(questions)
             user_answer == form_get(form, question.id)
         IN  ScoreLoop(Tail(questions), form,
                 IF user_answer = question.correct_answer THEN score + 1 ELSE score)

QuizGet ==
    /\ req' = Request("GET", "/quiz", NoForm, <<>>)
    /\ IF ~is_authenticated(users, session)
       THEN resp' = Unauthorized
       ELSE LET questions == quizzes
            IN  resp' = Render("quiz.html", "", <<>>, questions, <<>>)
    /\ UNCHANGED <<users, quizzes, session, registered, procs>>

MsgScore == "Your score is {score} out of {len(questions)}"

QuizPost(answers) ==
    /\ req' = Request("POST", "/quiz", NoForm, answers)
    /\ IF ~is_authenticated(users, session)
       THEN resp' = Unauthorized
       ELSE LET questions == quizzes
                score == ScoreLoop(questions, answers, 0)
            IN  resp' = Render("quiz.html", MsgScore, <<score, Len(questions)>>,
                                questions, <<score>>)
    /\ UNCHANGED <<users, quizzes, session, registered, procs>>

(* --------------------- the sequential specification ------------------- *)

\* The answer forms posted under Spec: the two of the sample scenario, an
\* empty one, partial ones and one in lower case.
SampleForms ==
    { <<"C", "B", "B">>, <<"A", "A", "A">>, <<>>, <<"C">>,
      [i \in {2, 3} |-> "B"], <<"c", "b", "b">> }

NoProcs == [i \in Procs |-> [pc |-> "start", username |-> 0, password |-> 0,
                             outcome |-> "None", logged |-> "None"]]

Init ==
    /\ users = <<>>
    /\ quizzes = <<>>
    /\ session = {}
    /\ req = Request("GET", "/", NoForm, <<>>)
    /\ resp = Render("home.html", "", <<>>, <<>>, <<>>)
    /\ registered = {}
    /\ procs = NoProcs

Next ==
    \/ RegisterGet
    \/ \E username \in Usernames, password \in Passwords, salt \in Salts, store_ok \in BOOLEAN :
           RegisterPost(username, password, salt, store_ok)
    \/ LoginGet
    \/ \E username \in Usernames, password \in Passwords : LoginPost(username, password)
    \/ Logout
    \/ Home
    \/ \E store_ok \in BOOLEAN : AddSampleQuestions(store_ok)
    \/ QuizGet
    \/ \E answers \in SampleForms : QuizPost(answers)

Spec == Init /\ [][Next]_vars

(* --------------------- concurrent POST /register ---------------------- *)

\* A request's first step: the form is read and the existence check runs.
RegCheck(i, username, password) ==
    /\ procs[i].pc = "start"
    /\ LET existing_user == first(filter_by_username(users, username))
       IN  procs' = [procs EXCEPT ![i] =
               IF existing_user # <<>>
               THEN [pc |-> "done", username |-> username, password |-> password,
                     outcome |-> MsgDuplicate, logged |-> "None"]
               ELSE [pc |-> "commit", username |-> username, password |-> password,
                     outcome |-> "None", logged |-> "None"]]
    /\ UNCHANGED <<users, quizzes, session, req, resp, registered>>

\* Its second step: the new row is added and committed, or the exception is
\* logged and the generic message flashed.
RegCommit(i, salt, store_ok) ==
    /\ procs[i].pc = "commit"
    /\ LET new_user == set_password(NewUser(procs[i].username), procs[i].password, salt)
           done == CommitUser(users, new_user, store_ok)
       IN  /\ users' = done.table
           /\ IF done.raised = "None"
              THEN /\ registered' = registered \cup {<<procs[i].username, procs[i].password>>}
                   /\ procs' = [procs EXCEPT ![i].pc = "done", ![i].outcome = MsgRegistered]
              ELSE /\ procs' = [procs EXCEPT ![i].pc = "done", ![i].outcome = MsgRegisterError,
                                             ![i].logged = done.raised]
                   /\ UNCHANGED registered
    /\ UNCHANGED <<quizzes, session, req, resp>>

ConcNext ==
    \/ \E i \in Procs, username \in Usernames, password \in Passwords :
           RegCheck(i, username, password)
    \/ \E i \in Procs, salt \in Salts, store_ok \in BOOLEAN : RegCommit(i, salt, store_ok)

ConcSpec == Init /\ [][ConcNext]_vars

(* ------------- the quiz handler over arbitrary catalogs --------------- *)

QIds == 1..MaxQ

\* The labels the forms carry: option labels and a lower-case one.
FormLabels == {"A", "B", "c"}

QuizRows == [id : QIds, question : {"?"}, correct_answer : Labels]

\* The tables the quiz table can hold: rows with distinct ids, in any order.
Catalogs ==
    UNION { { table \in [1..n -> QuizRows] :
                \A i, j \in 1..n : i # j => table[i].id # table[j].id } : n \in 0..MaxQ }

\* The forms a client can post: any subset of the question fields, any labels.
Forms == UNION { [ids -> FormLabels] : ids \in SUBSET QIds }

\* A registered user is logged in; the catalog is any table.
ScoreInit ==
    /\ users = <<set_password([NewUser(1) EXCEPT !.id = 1], 1, 1)>>
    /\ registered = {<<1, 1>>}
    /\ session = {1}
    /\ quizzes \in Catalogs
    /\ req = Request("POST", "/login", <<1, 1>>, <<>>)
    /\ resp = Redirect("home", "")
    /\ procs = NoProcs

ScoreNext ==
    \/ QuizGet
    \/ \E answers \in Forms : QuizPost(answers)

ScoreSpec == ScoreInit /\ [][ScoreNext]_vars

(* ============================ properties ============================== *)

IsRegisterPost == req.method = "POST" /\ req.path = "/register"
IsLoginPost == req.method = "POST" /\ req.path = "/login"
IsQuizPost == req.method = "POST" /\ req.path = "/quiz"
IsSeed == req.path = "/add_sample_questions"

\* The rows of a table that carry a username, by position.
RowsOf(table, username) == {i \in 1..Len(table) : table[i].username = username}

\* The ids of those rows.
IdsOf(table, username) == {table[i].id : i \in RowsOf(table, username)}

LoginSucceeded == resp.kind = "redirect" /\ resp.target = "home"
LoginFailedResponse == Redirect("login", MsgLoginFailed)

(* ---- C1 ---- *)

C1_Inv ==
    IsLoginPost =>
        /\ LoginSucceeded <=> req.credentials \in registered
        /\ LoginSucceeded => session # {} /\ session = IdsOf(users, req.credentials[1])
        /\ ~LoginSucceeded => resp = LoginFailedResponse

C1_Act ==
    (IsLoginPost' /\ req'.credentials \notin registered) => session' = session

\* C1: a POST /login with (u, p) succeeds (the session is bound to the user and
\* the response redirects to home) exactly when an earlier POST /register with
\* the same u and p succeeded; otherwise it fails and leaves the session alone.
C1_LoginIffRegistered == []C1_Inv /\ [][C1_Act]_vars

\* The second registered user logs in.
C1_Witness ==
    /\ IsLoginPost /\ LoginSucceeded
    /\ Len(users) = 2 /\ session = {users[2].id}
    /\ Cardinality(registered) = 2

(* ---- C2 ---- *)

C2_Inv ==
    /\ \A username \in Usernames : Cardinality(RowsOf(users, username)) <= 1
    /\ \A cred \in registered :
           \E i \in RowsOf(users, cred[1]) :
               users[i].password.hashval = hash_internal(users[i].password.salt, cred[2])

C2_Act ==
    (IsRegisterPost' /\ RowsOf(users, req'.credentials[1]) # {}) =>
        /\ resp' = Redirect("register", MsgDuplicate)
        /\ users' = users
        /\ registered' = registered

\* C2: registering a username that already has a row fails with the duplicate
\* outcome and leaves the user table unchanged, so every username has at most
\* one row and the first registrant's password keeps matching the stored hash.
C2_DuplicateRejected == []C2_Inv /\ [][C2_Act]_vars

\* A second registration of a taken username, with another password.
C2_Witness ==
    /\ IsRegisterPost /\ resp.flash = MsgDuplicate
    /\ req.credentials \notin registered
    /\ RowsOf(users, req.credentials[1]) # {}

(* ---- C3 ---- *)

C3_Act ==
    /\ (req'.path = "/quiz" /\ session = {}) =>
           /\ resp' = Unauthorized
           /\ resp'.questions = <<>> /\ resp'.score = <<>>
           /\ session' = {}
    /\ (req'.path = "/quiz" /\ resp'.target = "quiz.html") => session # {}

\* C3: every GET or POST /quiz of an anonymous session is answered with the
\* redirect to the login view, without a question list or a score, and the
\* session stays anonymous; the quiz page is rendered only to a logged-in session.
C3_QuizRequiresLogin == [][C3_Act]_vars

\* An anonymous POST /quiz is turned away although users and questions exist.
C3_Witness ==
    /\ IsQuizPost /\ resp = Unauthorized /\ session = {}
    /\ quizzes # <<>> /\ users # <<>> /\ req.answers # <<>>

(* ---- C4 ---- *)

\* The positions of the questions whose submitted label is present and equal
\* to the correct answer.
Matches(table, form) ==
    {i \in 1..Len(table) :
        table[i].id \in DOMAIN form /\ form[table[i].id] = table[i].correct_answer}

Orders(n) == {f \in [1..n -> 1..n] : \A i, j \in 1..n : i # j => f[i] # f[j]}

\* C4: the score of POST /quiz is the number of questions whose submitted
\* label is present and equal, case-sensitively, to the correct answer; it lies
\* in 0..len(questions), is 0 for the empty form, and is the same for every
\* order of the questions.
C4_ScoreIsMatchCount ==
    (IsQuizPost /\ session # {}) =>
        /\ resp.score = <<Cardinality(Matches(quizzes, req.answers))>>
        /\ resp.score[1] \in 0..Len(quizzes)
        /\ resp.flash_args = <<resp.score[1], Len(quizzes)>>
        /\ (DOMAIN req.answers = {} => resp.score = <<0>>)
        /\ \A f \in Orders(Len(quizzes)) :
               ScoreLoop([i \in 1..Len(quizzes) |-> quizzes[f[i]]], req.answers, 0)
                   = resp.score[1]

\* A full catalog where one answer is right, and another is missing or is the
\* correct label in lower case.
C4_Witness ==
    /\ IsQuizPost /\ Len(quizzes) = MaxQ /\ resp.score = <<1>>
    /\ \E i \in 1..Len(quizzes) :
           /\ quizzes[i].correct_answer = "C"
           /\ quizzes[i].id \in DOMAIN req.answers
           /\ req.answers[quizzes[i].id] = "c"
    /\ quizzes[1].id > quizzes[2].id

(* ---- C5 ---- *)

\* The seeded catalog: the three sample rows under the ids 1, 2, 3.
Seeded ==
    << [id |-> 1, question |-> "What is the capital of France?", correct_answer |-> "C"],
       [id |-> 2, question |-> "What is 2 + 2?", correct_answer |-> "B"],
       [id |-> 3, question |-> "Which planet is known as the Red Planet?", correct_answer |-> "B"] >>

\* C5, as the claim states it: after any seed request the catalog holds exactly
\* the three sample questions.
C5_Original == IsSeed => quizzes = Seeded

C5_Inv ==
    /\ quizzes \in {<<>>, Seeded}
    /\ (IsSeed /\ resp # Text("An error occurred while adding sample questions.")) =>
           quizzes = Seeded

C5_Act == quizzes # <<>> => quizzes' = quizzes

\* C5 (amended): a seed request on a non-empty catalog changes nothing; from
\* an empty catalog, after any seed requests the catalog holds exactly the
\* three sample questions (answers C, B, B) once one of them has committed,
\* and is still empty while every one so far has failed in the store.
C5_SeedOnce == []C5_Inv /\ [][C5_Act]_vars

\* A seed request finds the catalog already seeded.
C5_Witness ==
    /\ IsSeed /\ resp = Text("Sample questions already exist in the database.")
    /\ quizzes = Seeded

(* ---- C6 ---- *)

C6_Inv == req.path = "/logout" => session = {}

C6_Act ==
    /\ req'.path = "/logout" => users' = users /\ quizzes' = quizzes
    /\ (req.path = "/logout" /\ req'.path = "/logout") =>
           session' = session /\ resp' = Unauthorized

\* C6: after a /logout request the session is anonymous, whether it was
\* authenticated or already anonymous, so a second logout changes nothing;
\* neither touches the user table or the catalog.
C6_LogoutIdempotent == []C6_Inv /\ [][C6_Act]_vars

\* A logged-in session has just logged out.
C6_Witness ==
    /\ req.path = "/logout" /\ resp = Redirect("home", "")
    /\ session = {} /\ users # <<>>

(* ---- C7 ---- *)

Committed == {i \in Procs : procs[i].pc = "done" /\ procs[i].outcome = MsgRegistered}

\* C7: however concurrent POST /register requests interleave, no username has
\* more than one row: at most one request per username commits, every other
\* finished request has the duplicate or the generic error outcome, and the
\* rows are exactly those of the committed requests.
C7_UniqueUnderRaces ==
    /\ \A username \in Usernames :
           /\ Cardinality(RowsOf(users, username)) <= 1
           /\ Cardinality({i \in Committed : procs[i].username = username}) <= 1
    /\ \A i \in Procs :
           procs[i].pc = "done" =>
               procs[i].outcome \in {MsgRegistered, MsgDuplicate, MsgRegisterError}
    /\ Len(users) = Cardinality(Committed)

\* Two requests passed the existence check for one username; one committed and
\* the other was stopped by the unique constraint.
C7_Witness ==
    \E i, j \in Procs :
        /\ i # j /\ procs[i].username = procs[j].username
        /\ procs[i].pc = "done" /\ procs[i].outcome = MsgRegistered
        /\ procs[j].pc = "done" /\ procs[j].outcome = MsgRegisterError
        /\ procs[j].logged = "IntegrityError"

(* ---- C8 ---- *)

RegisterFailed == IsRegisterPost /\ resp = Redirect("register", MsgRegisterError)

C8_Inv == RegisterFailed => RowsOf(users, req.credentials[1]) = {}

C8_Act ==
    /\ RegisterFailed' => users' = users /\ registered' = registered
    /\ RegisterFailed =>
           /\ (IsLoginPost' /\ req'.credentials[1] = req.credentials[1]) =>
                  resp' = LoginFailedResponse
           /\ (IsRegisterPost' /\ req'.credentials[1] = req.credentials[1]) =>
                  resp'.flash # MsgDuplicate

UnknownUsername == RowsOf(users, req.credentials[1]) = {}
WrongPassword == RowsOf(users, req.credentials[1]) # {} /\ req.credentials \notin registered

C9_Act ==
    (IsLoginPost' /\ (UnknownUsername' \/ WrongPassword')) =>
        /\ resp' = LoginFailedResponse
        /\ session' = session

\* C9: a login that fails because the username is unknown and one that fails
\* because the password is wrong get the same response (message and redirect
\* target) and both leave the session as it was.
C9_UniformLoginFailure == [][C9_Act]_vars

\* A login fails on the password of an existing user.
C9_Witness == IsLoginPost /\ WrongPassword /\ resp = LoginFailedResponse

(* ---- C10 ---- *)

C10_Act ==
    /\ session' # session =>
           \/ /\ IsLoginPost' /\ LoginSucceeded'
              /\ req'.credentials \in registered
              /\ session' = IdsOf(users, req'.credentials[1])
           \/ /\ req'.path = "/logout" /\ session # {} /\ session' = {}
    /\ (IsLoginPost' /\ LoginSucceeded') => session' = IdsOf(users, req'.credentials[1])
    /\ (req'.path = "/logout" /\ session # {}) => session' = {}
    /\ req'.path \in {"/register", "/", "/add_sample_questions", "/quiz"} =>
           session' = session
    /\ (IsLoginPost' /\ ~LoginSucceeded') => session' = session

\* C10: the session identity changes only by a successful POST /login (to the
\* id of the user whose credentials were posted) and by an authenticated
\* /logout (to anonymous); every other request leaves it unchanged.
C10_SessionFrame == [][C10_Act]_vars

\* A logged-in user registers a second account and stays logged in as the first.
C10_Witness ==
    /\ IsRegisterPost /\ resp.flash = MsgRegistered
    /\ Len(users) = 2 /\ session = {users[1].id}

====
